---- MODULE Spec2Model ----
(***************************************************************************)
(* A model of the analytical core of egypt: the existential and temporal   *)
(* dependency analysers (src/dependency_types) and the extended prefix     *)
(* automaton builder (src/lib.rs).                                         *)
(*                                                                         *)
(* Spec     one call of check_existential_dependency or of                 *)
(*          check_temporal_dependency on inputs drawn from bounded sets.   *)
(* SpecEPA  ExtendedPrefixAutomaton::build, one event of the log per step. *)
(***************************************************************************)
EXTENDS Integers, Sequences, FiniteSets, TLC

VARIABLES
    from,           \* &str: the first activity of the pair
    to,             \* &str: the second activity of the pair
    traces,         \* &[Vec<&str>]: the list of traces
    threshold,      \* f64: threshold = threshold / ThresholdDen
    called,         \* which entry point has run: "none", "existential", "temporal"
    result,         \* what the call produced (NotCalled before it)
    states,         \* epa.states: HashMap<String, State>
    transitions,    \* epa.transitions: Vec<(String, char, String)>
    activities,     \* epa.activities: HashSet<char>
    last_at,        \* build's last_at: HashMap<String, String>
    processed,      \* the events of plain_log the loops have visited, in order
    text,           \* App::text: what the text area shows
    app_processed,  \* App::processed: the text is the output of Convert To XES
    in_flight,      \* the XESLoaded message the FileReader will send, if any
    download        \* the content of the last event_log.xes handed to the browser

depVars == <<from, to, traces, threshold, called, result>>
epaVars == <<states, transitions, activities, last_at, processed>>
appVars == <<text, app_processed, in_flight, download>>
vars == <<from, to, traces, threshold, called, result,
          states, transitions, activities, last_at, processed,
          text, app_processed, in_flight, download>>

---------------------------------------------------------------------------
(* Bounds of the model. *)

\* The size of a list of traces is its number of traces plus its number of
\* activity occurrences; the lists of Spec are all those of size <= MaxSize.
MaxSize == 6

\* Thresholds are the multiples of 1/ThresholdDen from -1/ThresholdDen to
\* (ThresholdDen + 1)/ThresholdDen: those in [0,1] and one on either side.
ThresholdDen == 4

\* The number of events SpecEPA feeds to build.
MaxEvents == 4

---------------------------------------------------------------------------
(* Option<T> and the outcome of a call. *)

None == [tag |-> "None"]
Some(v) == [tag |-> "Some", val |-> v]
IsSome(o) == o.tag = "Some"

\* assert!/unreachable!/unwrap on None: the call unwinds and returns nothing.
Panic == [tag |-> "Panic"]
NotCalled == [tag |-> "NotCalled"]

---------------------------------------------------------------------------
(* Inputs. *)

\* The labels of the bounded traces. Every analyser reads a trace only through
\* equality with from and with to, so "C" stands for any third activity.
Activities == {"A", "B", "C"}

\* The activities a pair is drawn from (self-pairs included).
Queried == {"A", "B"}

RECURSIVE ListsOfSize(_)
ListsOfSize(c) ==
    IF c = 0 THEN {<<>>}
    ELSE UNION { { Append(tl, t) : tl \in ListsOfSize(c - 1 - l),
                                   t \in [1..l -> Activities] }
                 : l \in 0..(c - 1) }

TraceLists == UNION { ListsOfSize(c) : c \in 0..MaxSize }

\* The fixture of the tests and of the scenarios.
FixtureTraces ==
    << <<"A", "B", "C", "D">>, <<"A", "C", "B", "D">>,
       <<"A", "E", "D">>, <<"A", "D">> >>

Thresholds == (-1)..(ThresholdDen + 1)

\* The traces of test_with_loop_1 and test_with_loop_2.
LoopFixtures ==
    { << <<"A", "B", "C", "A", "C">> >>, << <<"A", "C", "B", "C">> >> }

\* (0.0..=1.0).contains(&threshold)
InUnitRange(th) == 0 <= th /\ th <= ThresholdDen

---------------------------------------------------------------------------
(* f64 arithmetic of the ratio tests. *)

\* count as f64 / total as f64 >= threshold. 0.0 / 0.0 is NaN and every
\* comparison with NaN is false; otherwise the quotient of two small integers
\* compares with k / ThresholdDen as the exact rationals do.
RatioGEZeroMeets(count, total, th) == count * ThresholdDen >= th * total

RatioGE(count, total, th) ==
    IF total = 0 THEN FALSE
    ELSE count * ThresholdDen >= th * total

---------------------------------------------------------------------------
(* src/dependency_types/existential.rs *)

\* trace.contains(&a)
Contains(trace, a) == \E i \in 1..Len(trace) : trace[i] = a

\* iter().filter(pred).count() of has_implication
RECURSIVE CountImplication(_, _, _)
CountImplication(from_, to_, event_names) ==
    IF event_names = <<>> THEN 0
    ELSE (IF (IF Contains(Head(event_names), from_)
              THEN Contains(Head(event_names), to_)
              ELSE TRUE)
          THEN 1 ELSE 0)
         + CountImplication(from_, to_, Tail(event_names))

\* iter().filter(pred).count() of negated_equivalence
RECURSIVE CountNegated(_, _, _)
CountNegated(from_, to_, event_names) ==
    IF event_names = <<>> THEN 0
    ELSE (IF (IF Contains(Head(event_names), from_)
              THEN ~Contains(Head(event_names), to_)
              ELSE TRUE)
          THEN 1 ELSE 0)
         + CountNegated(from_, to_, Tail(event_names))

has_implication_only_from(from_, to_, event_names, th) ==
    LET with_from == SelectSeq(event_names, LAMBDA t : Contains(t, from_))
    IN  RatioGE(CountImplication(from_, to_, with_from), Len(with_from), th)

has_implication(from_, to_, event_names, th) ==
    LET total_traces == Len(event_names)
        valid_traces == CountImplication(from_, to_, event_names)
    IN  RatioGE(valid_traces, total_traces, th)

negated_equivalence(from_, to_, event_names, th) ==
    LET total_traces == Len(event_names)
        valid_traces == CountNegated(from_, to_, event_names)
    IN  RatioGE(valid_traces, total_traces, th)

ExistentialDependency(from_, to_, dependency_type, direction) ==
    [from |-> from_, to |-> to_,
     dependency_type |-> dependency_type, direction |-> direction]

check_existential_dependency_always_forward(from_, to_, traces_, th) ==
    IF ~InUnitRange(th) THEN Panic
    ELSE IF has_implication(from_, to_, traces_, th)
            \/ has_implication(to_, from_, traces_, th)
    THEN Some(ExistentialDependency(from_, to_,
            IF has_implication(from_, to_, traces_, th)
               /\ has_implication(to_, from_, traces_, th)
            THEN "Equivalence" ELSE "Implication",
            "Forward"))
    ELSE IF negated_equivalence(from_, to_, traces_, th)
    THEN Some(ExistentialDependency(from_, to_, "NegatedEquivalence", "Forward"))
    ELSE None

check_existential_dependency(from_, to_, traces_, th) ==
    IF ~InUnitRange(th) THEN Panic
    ELSE LET implication == has_implication(from_, to_, traces_, th)
         IN  IF implication \/ has_implication(to_, from_, traces_, th)
             THEN Some(ExistentialDependency(from_, to_,
                    IF implication /\ has_implication(to_, from_, traces_, th)
                    THEN "Equivalence" ELSE "Implication",
                    IF implication THEN "Forward" ELSE "Backward"))
             ELSE IF negated_equivalence(from_, to_, traces_, th)
             THEN Some(ExistentialDependency(from_, to_,
                        "NegatedEquivalence", "Forward"))
             ELSE None

---------------------------------------------------------------------------
(* src/dependency_types/temporal.rs *)

\* The first for loop of check_trace_dependency from index i on (0-based):
\* if activity == &from { from_positions.push(i) }
RECURSIVE FromPositions(_, _, _, _)
FromPositions(from_, to_, trace, i) ==
    IF i >= Len(trace) THEN <<>>
    ELSE (IF trace[i + 1] = from_ THEN <<i>> ELSE <<>>)
         \o FromPositions(from_, to_, trace, i + 1)

\* if activity == &to { to_positions.push(i) }, without the else.
RECURSIVE ToPositionsNoElse(_, _, _, _)
ToPositionsNoElse(from_, to_, trace, i) ==
    IF i >= Len(trace) THEN <<>>
    ELSE (IF trace[i + 1] = to_ THEN <<i>> ELSE <<>>)
         \o ToPositionsNoElse(from_, to_, trace, i + 1)

\* else if activity == &to { to_positions.push(i) }
RECURSIVE ToPositions(_, _, _, _)
ToPositions(from_, to_, trace, i) ==
    IF i >= Len(trace) THEN <<>>
    ELSE (IF trace[i + 1] # from_ /\ trace[i + 1] = to_ THEN <<i>> ELSE <<>>)
         \o ToPositions(from_, to_, trace, i + 1)

\* A distance of two also counted as Direct.
DependencyKindWithinTwo(distance) == IF distance <= 2 THEN "Direct" ELSE "Eventual"

DependencyKind(distance) == IF distance = 1 THEN "Direct" ELSE "Eventual"

\* The first while loop of check_trace_dependency, from the indexes fi, ti.
RECURSIVE PairLoop(_, _, _, _, _)
PairLoop(fp, tp, fi, ti, res) ==
    IF ~(fi < Len(fp) /\ ti < Len(tp))
    THEN [result |-> res, from_index |-> fi, to_index |-> ti, panicked |-> FALSE]
    ELSE LET from_pos == fp[fi + 1]
             to_pos == tp[ti + 1]
         IN  IF from_pos < to_pos
             THEN PairLoop(fp, tp, fi + 1, ti + 1,
                    Append(res, <<DependencyKind(to_pos - from_pos), "Forward">>))
             ELSE IF from_pos > to_pos
             THEN PairLoop(fp, tp, fi, ti + 1,
                    Append(res, <<DependencyKind(from_pos - to_pos), "Backward">>))
             ELSE [result |-> res, from_index |-> fi, to_index |-> ti,
                   panicked |-> TRUE]

\* The second loop: the from occurrences the first loop left.
RECURSIVE RemainingFrom(_, _, _, _)
RemainingFrom(fp, tp, fi, res) ==
    IF ~(fi < Len(fp)) THEN res
    ELSE RemainingFrom(fp, tp, fi + 1,
            IF tp # <<>> /\ tp[Len(tp)] > fp[fi + 1]
            THEN Append(res, <<"Eventual", "Forward">>)
            ELSE res)

\* The third loop: the to occurrences the first loop left.
RECURSIVE RemainingTo(_, _, _, _)
RemainingTo(fp, tp, ti, res) ==
    IF ~(ti < Len(tp)) THEN res
    ELSE RemainingTo(fp, tp, ti + 1,
            IF fp # <<>> /\ fp[Len(fp)] < tp[ti + 1]
            THEN Append(res, <<"Eventual", "Forward">>)
            ELSE Append(res, <<"Eventual", "Backward">>))

\* check_trace_dependency with the two position lists exchanged.
check_trace_dependency_swapped(from_, to_, trace) ==
    LET fp == ToPositions(from_, to_, trace, 0)
        tp == FromPositions(from_, to_, trace, 0)
        paired == PairLoop(fp, tp, 0, 0, <<>>)
    IN  IF paired.panicked THEN Panic
        ELSE Some(RemainingTo(fp, tp, paired.to_index,
                    RemainingFrom(fp, tp, paired.from_index, paired.result)))

\* Some(list of (DependencyType, Direction)), or Panic through unreachable!().
check_trace_dependency(from_, to_, trace) ==
    LET fp == FromPositions(from_, to_, trace, 0)
        tp == ToPositions(from_, to_, trace, 0)
        paired == PairLoop(fp, tp, 0, 0, <<>>)
    IN  IF paired.panicked THEN Panic
        ELSE Some(RemainingTo(fp, tp, paired.to_index,
                    RemainingFrom(fp, tp, paired.from_index, paired.result)))

TemporalDependency(from_, to_, dependency_type, direction) ==
    [from |-> from_, to |-> to_,
     dependency_type |-> dependency_type, direction |-> direction]

\* dependencies.iter().filter(|(_, dir)| *dir == Direction::Forward).count()
RECURSIVE CountForward(_)
CountForward(dependencies) ==
    IF dependencies = <<>> THEN 0
    ELSE (IF Head(dependencies)[2] = "Forward" THEN 1 ELSE 0)
         + CountForward(Tail(dependencies))

\* .all(..) where the code has .any(..)
AllEventual(dependencies) ==
    \A i \in 1..Len(dependencies) : dependencies[i][1] = "Eventual"

\* .any(..) looking at the Forward classifications only.
AnyEventualForward(dependencies) ==
    \E i \in 1..Len(dependencies) : dependencies[i] = <<"Eventual", "Forward">>

AnyEventual(dependencies) ==
    \E i \in 1..Len(dependencies) : dependencies[i][1] = "Eventual"

\* classify_dependencies with the two directions tested in the other order.
classify_dependencies_backward_first(from_, to_, dependencies, th) ==
    IF dependencies = <<>> THEN None
    ELSE LET total_count == Len(dependencies)
             forward_count == CountForward(dependencies)
             backward_count == total_count - forward_count
         IN  IF RatioGE(backward_count, total_count, th)
             THEN Some(TemporalDependency(from_, to_,
                    IF AnyEventual(dependencies) THEN "Eventual" ELSE "Direct",
                    "Backward"))
             ELSE IF RatioGE(forward_count, total_count, th)
             THEN Some(TemporalDependency(from_, to_,
                    IF AnyEventual(dependencies) THEN "Eventual" ELSE "Direct",
                    "Forward"))
             ELSE None

\* classify_dependencies reporting only the exact ratio.
classify_dependencies_exact(from_, to_, dependencies, th) ==
    IF dependencies = <<>> THEN None
    ELSE LET total_count == Len(dependencies)
             forward_count == CountForward(dependencies)
             backward_count == total_count - forward_count
         IN  IF forward_count * ThresholdDen = th * total_count
             THEN Some(TemporalDependency(from_, to_,
                    IF AnyEventual(dependencies) THEN "Eventual" ELSE "Direct",
                    "Forward"))
             ELSE IF backward_count * ThresholdDen = th * total_count
             THEN Some(TemporalDependency(from_, to_,
                    IF AnyEventual(dependencies) THEN "Eventual" ELSE "Direct",
                    "Backward"))
             ELSE None

classify_dependencies(from_, to_, dependencies, th) ==
    IF dependencies = <<>> THEN None
    ELSE LET total_count == Len(dependencies)
             forward_count == CountForward(dependencies)
             backward_count == total_count - forward_count
             dependency_type ==
                IF AnyEventual(dependencies) THEN "Eventual" ELSE "Direct"
         IN  IF RatioGE(forward_count, total_count, th)
             THEN Some(TemporalDependency(from_, to_, dependency_type, "Forward"))
             ELSE IF RatioGE(backward_count, total_count, th)
             THEN Some(TemporalDependency(from_, to_, dependency_type, "Backward"))
             ELSE None

\* The for loop of check_temporal_dependency: dependencies.extend(trace_deps)
\* for every trace in order; Panic when a trace's check unwinds.
RECURSIVE CollectDependencies(_, _, _, _)
CollectDependencies(from_, to_, traces_, dependencies) ==
    IF traces_ = <<>> THEN Some(dependencies)
    ELSE LET trace_deps == check_trace_dependency(from_, to_, Head(traces_))
         IN  IF trace_deps = Panic THEN Panic
             ELSE CollectDependencies(from_, to_, Tail(traces_),
                                      dependencies \o trace_deps.val)

\* Every classification recorded across all traces (<<>> when a check unwinds).
AllDependencies(from_, to_, traces_) ==
    LET collected == CollectDependencies(from_, to_, traces_, <<>>)
    IN  IF IsSome(collected) THEN collected.val ELSE <<>>

check_temporal_dependency(from_, to_, traces_, th) ==
    LET collected == CollectDependencies(from_, to_, traces_, <<>>)
    IN  IF collected = Panic THEN Panic
        ELSE classify_dependencies(from_, to_, collected.val, th)

---------------------------------------------------------------------------
(* src/lib.rs: ExtendedPrefixAutomaton *)

\* The case ids and the activity symbols of the events fed to build.
Cases == {"case_0", "case_1"}
Symbols == {"a", "b"}

\* struct Event { case, activity, predecessor: Option<String> }
Events ==
    [case : Cases, activity : Symbols,
     predecessor : {None} \cup {Some(c) : c \in Cases}]

root == "root"

EmptyMap == [k \in {} |-> k]

\* HashMap::insert
MapInsert(map, key, value) ==
    [k \in DOMAIN map \cup {key} |-> IF k = key THEN value ELSE map[k]]

\* ExtendedPrefixAutomaton::new
NewEPA ==
    [states |-> MapInsert(EmptyMap, root, [partition |-> None, sequences |-> {}]),
     transitions |-> <<>>,
     activities |-> {},
     root |-> root]

\* pred_at taken as the root for every event.
PredAtRoot(epa, last, event) == epa.root

\* event.predecessor.as_ref().and_then(|case| last_at.get(case))
\*      .unwrap_or(&epa.root)
PredAt(epa, last, event) ==
    IF IsSome(event.predecessor) /\ event.predecessor.val \in DOMAIN last
    THEN last[event.predecessor.val]
    ELSE epa.root

\* A lookup that compares the target of a transition with pred_at.
FindTransitionByTarget(trans, pred_at, activity) ==
    LET hits == {i \in 1..Len(trans) :
                    trans[i][3] = pred_at /\ trans[i][2] = activity}
    IN  IF hits = {} THEN None
        ELSE Some(trans[CHOOSE i \in hits : \A j \in hits : i <= j][3])

\* epa.transitions.iter().find(|(source, act, _)| source == &pred_at
\*      && *act == event.activity).map(|(_, _, target)| target.to_string())
FindTransition(trans, pred_at, activity) ==
    LET hits == {i \in 1..Len(trans) :
                    trans[i][1] = pred_at /\ trans[i][2] = activity}
    IN  IF hits = {} THEN None
        ELSE Some(trans[CHOOSE i \in hits : \A j \in hits : i <= j][3])

\* epa.states.values().filter_map(|s| s.partition).max().unwrap_or(0)
MaxPartition(sts) ==
    LET parts == {sts[id].partition.val :
                    id \in {i \in DOMAIN sts : IsSome(sts[i].partition)}}
    IN  IF parts = {} THEN 0
        ELSE CHOOSE m \in parts : \A q \in parts : q <= m

\* Option<usize>::unwrap_or(0)
UnwrapOr0(o) == IF IsSome(o) THEN o.val ELSE 0

\* format!("s{}", epa.states.len())
NewStateId(sts) == "s" \o ToString(Cardinality(DOMAIN sts))

\* current_c that never opens a partition at a branch.
CurrentCBranchInherits(epa, pred_at) ==
    IF pred_at = epa.root THEN 1
    ELSE UnwrapOr0(epa.states[pred_at].partition)

\* current_c without the test for the root.
CurrentCNoRootCase(epa, pred_at) ==
    IF \E i \in 1..Len(epa.transitions) : epa.transitions[i][1] = pred_at
    THEN MaxPartition(epa.states) + 1
    ELSE UnwrapOr0(epa.states[pred_at].partition)

\* The partition of a state created below pred_at.
CurrentC(epa, pred_at) ==
    IF pred_at = epa.root THEN 1
    ELSE IF \E i \in 1..Len(epa.transitions) : epa.transitions[i][1] = pred_at
    THEN MaxPartition(epa.states) + 1
    ELSE UnwrapOr0(epa.states[pred_at].partition)

\* The loop body pushing (new_state_id, activity, pred_at): source and target
\* of the new transition swapped.
BuildStepSwapped(epa, last, event) ==
    LET pred_at == PredAt(epa, last, event)
        found == FindTransition(epa.transitions, pred_at, event.activity)
        new_state_id == NewStateId(epa.states)
        current_at == IF IsSome(found) THEN found.val ELSE new_state_id
        created ==
            IF IsSome(found) THEN epa
            ELSE [epa EXCEPT
                    !.states = MapInsert(epa.states, new_state_id,
                                  [partition |-> Some(CurrentC(epa, pred_at)),
                                   sequences |-> {}]),
                    !.transitions = Append(epa.transitions,
                                  <<new_state_id, event.activity, pred_at>>),
                    !.activities = epa.activities \cup {event.activity}]
    IN  [epa |-> [created EXCEPT
                    !.states[current_at].sequences = @ \cup {event}],
         last_at |-> MapInsert(last, event.case, current_at)]

\* The body of the inner loop of build for one event: the automaton and
\* last_at after it.
BuildStep(epa, last, event) ==
    LET pred_at == PredAt(epa, last, event)
        found == FindTransition(epa.transitions, pred_at, event.activity)
        new_state_id == NewStateId(epa.states)
        current_at == IF IsSome(found) THEN found.val ELSE new_state_id
        created ==
            IF IsSome(found) THEN epa
            ELSE [epa EXCEPT
                    !.states = MapInsert(epa.states, new_state_id,
                                  [partition |-> Some(CurrentC(epa, pred_at)),
                                   sequences |-> {}]),
                    !.transitions = Append(epa.transitions,
                                  <<pred_at, event.activity, new_state_id>>),
                    !.activities = epa.activities \cup {event.activity}]
    IN  [epa |-> [created EXCEPT
                    !.states[current_at].sequences = @ \cup {event}],
         last_at |-> MapInsert(last, event.case, current_at)]

\* The automaton of the state.
Epa ==
    [states |-> states, transitions |-> transitions,
     activities |-> activities, root |-> root]

\* A text the user typed: its lines, each the list of its comma-separated
\* fields. String::new() has no line.
Typed(lines) == [kind |-> "typed", lines |-> lines]

\* App::create
InitApp ==
    /\ text = Typed(<<>>)
    /\ app_processed = FALSE
    /\ in_flight = None
    /\ download = None

InitDep ==
    /\ from = "A"
    /\ to = "B"
    /\ traces = <<>>
    /\ threshold = ThresholdDen
    /\ called = "none"
    /\ result = NotCalled

\* f64::log(10.0) of a small positive integer, in millionths (rounded);
\* log10(1) is exactly 0.
Log10Table == <<0, 301030, 477121, 602060, 698970, 778151, 845098, 903090>>
Log10Micro(n) == Log10Table[n]

\* x * x.log(10.0), in millionths.
XLogX(n) == n * Log10Micro(n)

\* The f64 quotient of two non-negative values: 0/0 is NaN, x/0 is infinite.
NaN == [tag |-> "NaN"]
Infinite == [tag |-> "Infinite"]
Ratio(num, den) == [tag |-> "Ratio", num |-> num, den |-> den]
Divide(num, den) ==
    IF den = 0 THEN (IF num = 0 THEN NaN ELSE Infinite) ELSE Ratio(num, den)

\* s taken as states.len() with the root counted.
EntropySRaw(sts) == Cardinality(DOMAIN sts)

\* let s = states.len(); let s = if s > 1.0 { s - 1.0 } else { s }
EntropyS(sts) ==
    LET s == Cardinality(DOMAIN sts)
    IN  IF s > 1 THEN s - 1 ELSE s

\* partition_sizes: for every partition some state carries, the number of
\* states carrying it.
PartitionSizes(sts) ==
    LET carriers == {id \in DOMAIN sts : IsSome(sts[id].partition)}
    IN  [p \in {sts[id].partition.val : id \in carriers} |->
            Cardinality({id \in carriers : sts[id].partition.val = p})]

\* sum_term: the sum of size * log10(size) over the partitions in keys.
RECURSIVE SumTerm(_, _)
SumTerm(sizes, keys) ==
    IF keys = {} THEN 0
    ELSE LET p == CHOOSE k \in keys : TRUE
         IN  XLogX(sizes[p]) + SumTerm(sizes, keys \ {p})

variant_entropy(epa) ==
    LET s == EntropyS(epa.states)
        partition_sizes == PartitionSizes(epa.states)
    IN  XLogX(s) - SumTerm(partition_sizes, DOMAIN partition_sizes)

normalized_variant_entropy(epa) ==
    LET e_v == variant_entropy(epa)
        s == EntropyS(epa.states)
    IN  Divide(e_v, XLogX(s))

InitBuild ==
    /\ states = NewEPA.states
    /\ transitions = NewEPA.transitions
    /\ activities = NewEPA.activities
    /\ last_at = EmptyMap
    /\ processed = <<>>
    /\ InitDep
    /\ InitApp

\* One iteration of `for event in trace` (the two loops of build visit the
\* events of plain_log in order; nothing in the body reads the trace an event
\* sits in).
ProcessEvent(event) ==
    /\ called = "none"
    /\ Len(processed) < MaxEvents
    /\ LET next == BuildStep(Epa, last_at, event)
       IN  /\ states' = next.epa.states
           /\ transitions' = next.epa.transitions
           /\ activities' = next.epa.activities
           /\ last_at' = next.last_at
    /\ processed' = Append(processed, event)
    /\ UNCHANGED depVars
    /\ UNCHANGED appVars

\* The two entropy calls on the automaton build returned.
ComputeEntropy ==
    /\ called = "none"
    /\ called' = "entropy"
    /\ result' = [variant_entropy |-> variant_entropy(Epa),
                  normalized_variant_entropy |-> normalized_variant_entropy(Epa)]
    /\ UNCHANGED <<from, to, traces, threshold>>
    /\ UNCHANGED epaVars
    /\ UNCHANGED appVars

NextBuild ==
    \/ \E event \in Events : ProcessEvent(event)
    \/ ComputeEntropy

SpecEPA == InitBuild /\ [][NextBuild]_vars

---------------------------------------------------------------------------
(* Spec: one call of an entry point. *)

InitEPA ==
    /\ states = NewEPA.states
    /\ transitions = NewEPA.transitions
    /\ activities = NewEPA.activities
    /\ last_at = EmptyMap
    /\ processed = <<>>

Init ==
    /\ \/ /\ traces \in TraceLists
          /\ from \in Queried
          /\ to \in Queried
          /\ threshold \in Thresholds
       \/ /\ traces = FixtureTraces
          /\ from = "A"
          /\ to = "B"
          /\ threshold = ThresholdDen
       \/ /\ traces \in LoopFixtures
          /\ from = "A"
          /\ to = "C"
          /\ threshold = ThresholdDen
    /\ called = "none"
    /\ result = NotCalled
    /\ InitEPA
    /\ InitApp

CheckExistential ==
    /\ called = "none"
    /\ called' = "existential"
    /\ result' = check_existential_dependency(from, to, traces, threshold)
    /\ UNCHANGED <<from, to, traces, threshold>>
    /\ UNCHANGED epaVars
    /\ UNCHANGED appVars

CheckTemporal ==
    /\ called = "none"
    /\ called' = "temporal"
    /\ result' = check_temporal_dependency(from, to, traces, threshold)
    /\ UNCHANGED <<from, to, traces, threshold>>
    /\ UNCHANGED epaVars
    /\ UNCHANGED appVars

Next == CheckExistential \/ CheckTemporal

Spec == Init /\ [][Next]_vars

---------------------------------------------------------------------------
(* src/parser.rs: variants_of_traces; src/lib.rs: the dependency matrix *)

\* The lists of traces handed to the two functions of a log.
MaxLogSize == 7
LogLists == UNION { ListsOfSize(c) : c \in 0..MaxLogSize } \cup {FixtureTraces}

\* acc.entry(trace).or_insert(1): the count is set, never added to.
EntryInsertOne(acc, trace) == MapInsert(acc, trace, 1)

\* *acc.entry(trace).or_insert(0) += 1
EntryAddOne(acc, trace) ==
    MapInsert(acc, trace, (IF trace \in DOMAIN acc THEN acc[trace] ELSE 0) + 1)

\* traces.into_iter().fold(acc, ..)
RECURSIVE VariantsFold(_, _)
VariantsFold(traces_, acc) ==
    IF traces_ = <<>> THEN acc
    ELSE VariantsFold(Tail(traces_), EntryAddOne(acc, Head(traces_)))

variants_of_traces(traces_) == VariantsFold(traces_, EmptyMap)

\* generate_adj_matrix_from_traces: the set of the labels of the traces.
ActivitiesOf(traces_) ==
    UNION { {traces_[i][j] : j \in 1..Len(traces_[i])} : i \in 1..Len(traces_) }

\* What a cell on the diagonal shows.
Todo == [tag |-> "TODO"]

ZeroCounters ==
    [full_independences |-> 0, pure_existences |-> 0,
     eventual_equivalences |-> 0, direct_equivalences |-> 0]

\* The counters after a pair, with the test of the existential dependency
\* placed outside the test of the temporal one.
PairCountersUnnested(c, temporal_dependency, existential_dependency) ==
    LET c1 == IF temporal_dependency = None
              THEN [c EXCEPT !.pure_existences = @ + 1]
              ELSE c
        c2 == IF existential_dependency = None
              THEN [c1 EXCEPT !.full_independences = @ + 1]
              ELSE c1
    IN  IF IsSome(existential_dependency)
           /\ existential_dependency.val.dependency_type = "Equivalence"
           /\ IsSome(temporal_dependency)
        THEN IF temporal_dependency.val.dependency_type = "Eventual"
             THEN [c2 EXCEPT !.eventual_equivalences = @ + 1]
             ELSE [c2 EXCEPT !.direct_equivalences = @ + 1]
        ELSE c2

\* The counters after the pair whose two dependencies are given.
PairCounters(c, temporal_dependency, existential_dependency) ==
    LET c1 == IF temporal_dependency = None
              THEN [c EXCEPT
                      !.pure_existences = @ + 1,
                      !.full_independences =
                          IF existential_dependency = None THEN @ + 1 ELSE @]
              ELSE c
    IN  IF IsSome(existential_dependency)
           /\ existential_dependency.val.dependency_type = "Equivalence"
           /\ IsSome(temporal_dependency)
        THEN IF temporal_dependency.val.dependency_type = "Eventual"
             THEN [c1 EXCEPT !.eventual_equivalences = @ + 1]
             ELSE [c1 EXCEPT !.direct_equivalences = @ + 1]
        ELSE c1

\* The two nested loops over the activities: cells holds what each visited
\* cell of the grid shows, counters the four counts so far. The counts do not
\* depend on the order in which the HashSet yields the activities.
RECURSIVE AdjLoop(_, _, _, _)
AdjLoop(todo, traces_, cells, counters) ==
    IF todo = {} THEN [cells |-> cells, counters |-> counters, panicked |-> FALSE]
    ELSE LET pair == CHOOSE p \in todo : TRUE
             from_ == pair[1]
             to_ == pair[2]
         IN  IF to_ # from_
             THEN LET temporal_dependency ==
                          check_temporal_dependency(from_, to_, traces_, ThresholdDen)
                      existential_dependency ==
                          check_existential_dependency(from_, to_, traces_, ThresholdDen)
                  IN  IF temporal_dependency = Panic \/ existential_dependency = Panic
                      THEN [cells |-> cells, counters |-> counters, panicked |-> TRUE]
                      ELSE AdjLoop(todo \ {pair}, traces_,
                               MapInsert(cells, pair,
                                   [temporal |-> temporal_dependency,
                                    existential |-> existential_dependency]),
                               PairCounters(counters, temporal_dependency,
                                            existential_dependency))
             ELSE AdjLoop(todo \ {pair}, traces_,
                          MapInsert(cells, pair, Todo), counters)

generate_adj_matrix_from_activities_and_traces(acts, traces_) ==
    LET done == AdjLoop(acts \X acts, traces_, EmptyMap, ZeroCounters)
    IN  IF done.panicked THEN Panic
        ELSE [output |-> done.cells,
              full_independences |-> done.counters.full_independences,
              pure_existences |-> done.counters.pure_existences,
              eventual_equivalences |-> done.counters.eventual_equivalences,
              direct_equivalences |-> done.counters.direct_equivalences,
              number_of_activities |-> Cardinality(acts)]

generate_adj_matrix_from_traces(traces_) ==
    generate_adj_matrix_from_activities_and_traces(ActivitiesOf(traces_), traces_)

InitLog ==
    /\ traces \in LogLists
    /\ from = "A"
    /\ to = "B"
    /\ threshold = ThresholdDen
    /\ called = "none"
    /\ result = NotCalled
    /\ InitEPA
    /\ InitApp

CountVariants ==
    /\ called = "none"
    /\ called' = "variants"
    /\ result' = variants_of_traces(traces)
    /\ UNCHANGED <<from, to, traces, threshold>>
    /\ UNCHANGED epaVars
    /\ UNCHANGED appVars

GenerateAdjMatrix ==
    /\ called = "none"
    /\ called' = "adj_matrix"
    /\ result' = generate_adj_matrix_from_traces(traces)
    /\ UNCHANGED <<from, to, traces, threshold>>
    /\ UNCHANGED epaVars
    /\ UNCHANGED appVars

NextLog == CountVariants \/ GenerateAdjMatrix

SpecLog == InitLog /\ [][NextLog]_vars

---------------------------------------------------------------------------
(* What the claims about the two analysers speak of, counted over sets of   *)
(* trace indexes and of recorded classifications.                          *)

Occurs(a, trace) == a \in {trace[i] : i \in 1..Len(trace)}

NumTraces(tr, P(_)) == Cardinality({i \in 1..Len(tr) : P(tr[i])})

\* implies(a, b): (traces lacking a + traces containing a and b) / total >= t
Implies(a, b, tr, th) ==
    (NumTraces(tr, LAMBDA t : ~Occurs(a, t))
     + NumTraces(tr, LAMBDA t : Occurs(a, t) /\ Occurs(b, t))) * ThresholdDen
        >= th * Len(tr)

\* (traces lacking a + traces containing a but not b) / total >= t
Excludes(a, b, tr, th) ==
    (NumTraces(tr, LAMBDA t : ~Occurs(a, t))
     + NumTraces(tr, LAMBDA t : Occurs(a, t) /\ ~Occurs(b, t))) * ThresholdDen
        >= th * Len(tr)

ReferenceExistential(a, b, tr, th) ==
    CASE Implies(a, b, tr, th) /\ Implies(b, a, tr, th) ->
            Some([from |-> a, to |-> b,
                  dependency_type |-> "Equivalence", direction |-> "Forward"])
      [] Implies(a, b, tr, th) /\ ~Implies(b, a, tr, th) ->
            Some([from |-> a, to |-> b,
                  dependency_type |-> "Implication", direction |-> "Forward"])
      [] ~Implies(a, b, tr, th) /\ Implies(b, a, tr, th) ->
            Some([from |-> a, to |-> b,
                  dependency_type |-> "Implication", direction |-> "Backward"])
      [] OTHER ->
            IF Excludes(a, b, tr, th)
            THEN Some([from |-> a, to |-> b,
                       dependency_type |-> "NegatedEquivalence",
                       direction |-> "Forward"])
            ELSE None

\* The classifications recorded for the pair of the state, over all traces.
Recorded == AllDependencies(from, to, traces)
forward_count == Cardinality({i \in 1..Len(Recorded) : Recorded[i][2] = "Forward"})
backward_count == Cardinality({i \in 1..Len(Recorded) : Recorded[i][2] = "Backward"})

CalledExistential == called = "existential" /\ InUnitRange(threshold)
CalledTemporal == called = "temporal" /\ InUnitRange(threshold)

\* The results of the two calls of a swapped pair: both None, or the same kind
\* with one direction Forward and the other Backward.
Mirrored(r1, r2) ==
    \/ r1 = None /\ r2 = None
    \/ /\ IsSome(r1) /\ IsSome(r2)
       /\ r1.val.dependency_type = r2.val.dependency_type
       /\ {r1.val.direction, r2.val.direction} = {"Forward", "Backward"}

---------------------------------------------------------------------------
(* Claims about the dependency analysers, under Spec. *)

\* C1: on a non-empty list of traces and a threshold in [0,1],
\* check_existential_dependency returns the reference result (Equivalence /
\* Implication Forward / Implication Backward / NegatedEquivalence / None by
\* the implies and excludes ratios), never Nand, Or or direction Both.
C1_ExistentialMatchesReference ==
    (CalledExistential /\ traces # <<>>) =>
        /\ result = ReferenceExistential(from, to, traces, threshold)
        /\ IsSome(result) =>
            /\ result.val.dependency_type \notin {"Nand", "Or"}
            /\ result.val.direction # "Both"

\* A noisy case: only implies(to, from) meets a threshold strictly inside (0,1).
C1_Witness ==
    /\ CalledExistential /\ Len(traces) >= 2
    /\ 0 < threshold /\ threshold < ThresholdDen
    /\ IsSome(result)
    /\ result.val.dependency_type = "Implication"
    /\ result.val.direction = "Backward"

\* C2 as stated: a reported temporal dependency means all recorded
\* classifications agree on direction, and the direction is the majority's.
C2_AsStated ==
    CalledTemporal =>
        /\ IsSome(result) =>
            /\ forward_count = 0 \/ backward_count = 0
            /\ result.val.direction =
                 (IF forward_count > backward_count THEN "Forward" ELSE "Backward")
        /\ (forward_count > 0 /\ backward_count > 0) => result = None

\* C2 amended: at threshold 1.0 a reported dependency means all recorded
\* classifications agree and the direction is the majority's, and disagreeing
\* classifications give None; at any threshold t in [0,1] the result is Forward
\* when forward_count/total >= t, else Backward when backward_count/total >= t,
\* else None, whether or not the classifications agree.
C2_DirectionMeetsThreshold ==
    CalledTemporal =>
        /\ threshold = ThresholdDen =>
            /\ IsSome(result) =>
                /\ forward_count = 0 \/ backward_count = 0
                /\ result.val.direction =
                     (IF forward_count > backward_count
                      THEN "Forward" ELSE "Backward")
            /\ (forward_count > 0 /\ backward_count > 0) => result = None
        /\ Recorded = <<>> => result = None
        /\ Recorded # <<>> =>
            IF forward_count * ThresholdDen >= threshold * Len(Recorded)
            THEN IsSome(result) /\ result.val.direction = "Forward"
            ELSE IF backward_count * ThresholdDen >= threshold * Len(Recorded)
            THEN IsSome(result) /\ result.val.direction = "Backward"
            ELSE result = None

\* Disagreeing classifications reported as a Backward dependency below 1.0.
C2_Witness ==
    /\ CalledTemporal /\ threshold < ThresholdDen
    /\ forward_count > 0 /\ backward_count > forward_count
    /\ IsSome(result) /\ result.val.direction = "Backward"

\* C3 as stated: when no single trace contains both from and to,
\* check_temporal_dependency returns None.
C3_AsStated ==
    (CalledTemporal
     /\ \A i \in 1..Len(traces) :
            ~(Occurs(from, traces[i]) /\ Occurs(to, traces[i])))
        => result = None

\* C4 as stated: for distinct a, b the temporal results of (a, b) and (b, a)
\* are both None or have the same kind and mirrored directions.
C4_AsStated ==
    (CalledTemporal /\ from # to) =>
        Mirrored(result, check_temporal_dependency(to, from, traces, threshold))

\* C5 as stated: for distinct a, b the existential results of (a, b) and
\* (b, a) are both None or have the same kind and mirrored directions.
C5_AsStated ==
    (CalledExistential /\ from # to) =>
        Mirrored(result, check_existential_dependency(to, from, traces, threshold))

\* C5 amended: for distinct a, b the existential results of (a, b) and (b, a)
\* are both None or have the same kind; an Implication has mirrored directions
\* (Forward in one call, Backward in the other), an Equivalence and a
\* NegatedEquivalence are reported Forward by both calls.
C5_SwapSameKind ==
    (CalledExistential /\ from # to) =>
        LET swapped == check_existential_dependency(to, from, traces, threshold)
        IN  \/ result = None /\ swapped = None
            \/ /\ IsSome(result) /\ IsSome(swapped)
               /\ result.val.dependency_type = swapped.val.dependency_type
               /\ IF result.val.dependency_type = "Implication"
                  THEN {result.val.direction, swapped.val.direction}
                          = {"Forward", "Backward"}
                  ELSE result.val.direction = "Forward"
                       /\ swapped.val.direction = "Forward"

\* A Backward implication of a distinct pair.
C5_Witness ==
    /\ CalledExistential /\ from # to /\ IsSome(result)
    /\ result.val.dependency_type = "Implication"
    /\ result.val.direction = "Backward"
    /\ threshold = ThresholdDen

\* C6: a dependency returned at a threshold t2 in [0,1] is also returned (not
\* None) at every threshold t1 < t2 in [0,1], by either analyser.
C6_ThresholdMonotone ==
    /\ (CalledExistential /\ IsSome(result)) =>
          \A t1 \in 0..(threshold - 1) :
              IsSome(check_existential_dependency(from, to, traces, t1))
    /\ (CalledTemporal /\ IsSome(result)) =>
          \A t1 \in 0..(threshold - 1) :
              IsSome(check_temporal_dependency(from, to, traces, t1))

\* A temporal dependency over disagreeing classifications at a threshold
\* with a lower threshold below it.
C6_Witness ==
    /\ CalledTemporal /\ IsSome(result)
    /\ 0 < threshold /\ threshold < ThresholdDen
    /\ forward_count > 0 /\ backward_count > 0

\* C7 as stated: both entry points fail fast on a threshold outside [0,1].
C7_AsStated ==
    (called # "none" /\ ~InUnitRange(threshold)) => result = Panic

\* C8: on an empty list of traces both analysers return None for every pair
\* and every threshold in [0,1], without failing.
C8_EmptyIsNone ==
    (called # "none" /\ InUnitRange(threshold) /\ traces = <<>>) => result = None

\* The existential check of an empty list at threshold 0, where 0/0 decides.
C8_Witness ==
    /\ called = "existential" /\ traces = <<>> /\ threshold = 0
    /\ from # to /\ result = None

---------------------------------------------------------------------------
(* Claims about ExtendedPrefixAutomaton::build, under SpecEPA. *)

\* At most one transition per (source state, symbol) pair.
Deterministic ==
    \A i, j \in 1..Len(transitions) :
        (transitions[i][1] = transitions[j][1]
         /\ transitions[i][2] = transitions[j][2]) => i = j

\* A step whose event finds a transition from its predecessor state on its
\* symbol adds no state and no transition and moves the case to its target.
ReusesTransition ==
    processed' # processed =>
        LET event == processed'[Len(processed')]
            pred_at == PredAt(Epa, last_at, event)
            hits == {i \in 1..Len(transitions) :
                        transitions[i][1] = pred_at
                        /\ transitions[i][2] = event.activity}
        IN  hits # {} =>
                /\ transitions' = transitions
                /\ DOMAIN states' = DOMAIN states
                /\ \E i \in hits : last_at'[event.case] = transitions[i][3]

\* C10: after every prefix of the events of a log the transition list holds
\* at most one transition per (source state, symbol) pair, and an event whose
\* predecessor state already has a transition on its symbol reuses that
\* transition's target and adds no state and no transition.
C10_AutomatonDeterministic == []Deterministic /\ [][ReusesTransition]_vars

\* A build in which events were merged into existing transitions and a state
\* has two outgoing transitions.
C10_Witness ==
    /\ Len(processed) = MaxEvents
    /\ Len(transitions) >= 2 /\ Len(transitions) < Len(processed)
    /\ \E i, j \in 1..Len(transitions) :
          i # j /\ transitions[i][1] = transitions[j][1]

\* The states other than the root.
NonRoot == DOMAIN states \ {root}

\* C11: after every step of build (also on events whose predecessor names
\* another or an unseen case) the root has no partition and every non-root
\* state has exactly one partition number, an integer >= 1.
C11_PartitionsPositive ==
    /\ states[root].partition = None
    /\ \A id \in NonRoot :
          /\ IsSome(states[id].partition)
          /\ states[id].partition.val \in Nat
          /\ states[id].partition.val >= 1

\* A build with an event whose predecessor names an unseen case, one whose
\* predecessor names another case, and a second partition.
C11_Witness ==
    /\ \E i \in 1..Len(processed) :
          /\ IsSome(processed[i].predecessor)
          /\ \A j \in 1..(i - 1) : processed[j].case # processed[i].predecessor.val
    /\ \E i \in 1..Len(processed) :
          /\ IsSome(processed[i].predecessor)
          /\ processed[i].predecessor.val # processed[i].case
          /\ \E j \in 1..(i - 1) : processed[j].case = processed[i].predecessor.val
    /\ \E id \in NonRoot : states[id].partition = Some(2)

\* The states one transition away from a state of S.
Targets(S) ==
    {transitions[i][3] : i \in {j \in 1..Len(transitions) : transitions[j][1] \in S}}

\* The states reachable from a state of S by at most n transitions.
RECURSIVE Within(_, _)
Within(S, n) == IF n = 0 THEN S ELSE Within(S \cup Targets(S), n - 1)

Incoming(id) == {i \in 1..Len(transitions) : transitions[i][3] = id}

\* C12: after every step of build the transition graph is acyclic and every
\* state is reachable from the root; the generated ids are distinct, so each
\* non-root state is the target of exactly one transition and the number of
\* states is the number of transitions plus one.
C12_TreeFromRoot ==
    /\ \A id \in DOMAIN states :
          id \notin Within(Targets({id}), Len(transitions))
    /\ Within({root}, Len(transitions)) = DOMAIN states
    /\ \A id \in NonRoot : Cardinality(Incoming(id)) = 1
    /\ Incoming(root) = {}
    /\ Cardinality(DOMAIN states) = Len(transitions) + 1

\* A build with a branch below a non-root state and all its events used.
C12_Witness ==
    /\ Len(processed) = MaxEvents
    /\ Len(transitions) >= 3
    /\ \E i, j \in 1..Len(transitions) :
          i # j /\ transitions[i][1] = transitions[j][1]
                /\ transitions[i][1] # root

CalledEntropy == called = "entropy"

\* No state has two outgoing transitions.
LinearChain ==
    \A i, j \in 1..Len(transitions) :
        transitions[i][1] = transitions[j][1] => i = j

\* C14: when the built automaton is one linear chain from the root, all its
\* non-root states carry the same partition number and variant_entropy is 0.
C14_ChainEntropyZero ==
    (CalledEntropy /\ LinearChain) =>
        /\ \A a, b \in NonRoot : states[a].partition = states[b].partition
        /\ result.variant_entropy = 0

\* The entropy of a chain of at least three states below the root.
C14_Witness ==
    /\ CalledEntropy
    /\ LinearChain
    /\ Cardinality(NonRoot) >= 3

\* All non-root states lie in distinct partitions.
SingletonPartitions ==
    \A a, b \in NonRoot : states[a].partition = states[b].partition => a = b

\* C15: with S >= 1 non-root states, all in distinct singleton partitions,
\* variant_entropy is S*log10(S) and normalized_variant_entropy is 1.
C15_AsStated ==
    (CalledEntropy /\ Cardinality(NonRoot) >= 1 /\ SingletonPartitions) =>
        /\ result.variant_entropy = XLogX(Cardinality(NonRoot))
        /\ result.normalized_variant_entropy.tag = "Ratio"
        /\ result.normalized_variant_entropy.num
              = result.normalized_variant_entropy.den

---------------------------------------------------------------------------
(* src/bin/egypt.rs: the log App::update hands to build *)

\* The activity names of the parsed traces and activity.chars().next().
LogNames == {"a", "b", "ab"}
FirstChar(name) == IF name = "ab" THEN "a" ELSE name

\* The lists of traces over LogNames of size c (traces + occurrences).
RECURSIVE CaseListsOfSize(_)
CaseListsOfSize(c) ==
    IF c = 0 THEN {<<>>}
    ELSE UNION { { Append(tl, t) : tl \in CaseListsOfSize(c - 1 - l),
                                   t \in [1..l -> LogNames] }
                 : l \in 0..(c - 1) }

MaxCaseSize == 7
CaseLogs == UNION { CaseListsOfSize(c) : c \in 0..MaxCaseSize }

\* format!("case_{}", case_idx)
CaseId(case_idx) == "case_" \o ToString(case_idx)

\* plain_log: every trace becomes the events of one case, the first without
\* and the later ones with the case itself as predecessor.
PlainLog(traces_) ==
    [c \in 1..Len(traces_) |->
        [e \in 1..Len(traces_[c]) |->
            [case |-> CaseId(c - 1),
             activity |-> FirstChar(traces_[c][e]),
             predecessor |-> IF e - 1 > 0 THEN Some(CaseId(c - 1)) ELSE None]]]

\* The events of plain_log in the order the two loops of build visit them.
RECURSIVE Flatten(_)
Flatten(plain_log) ==
    IF plain_log = <<>> THEN <<>>
    ELSE Head(plain_log) \o Flatten(Tail(plain_log))

\* The two loops of build from the automaton epa and last_at on.
RECURSIVE BuildFrom(_, _, _)
BuildFrom(epa, last, events) ==
    IF events = <<>> THEN epa
    ELSE LET next == BuildStep(epa, last, Head(events))
         IN  BuildFrom(next.epa, next.last_at, Tail(events))

\* ExtendedPrefixAutomaton::build
Build(plain_log) == BuildFrom(NewEPA, EmptyMap, Flatten(plain_log))

InitCases ==
    /\ traces \in CaseLogs
    /\ from = "A"
    /\ to = "B"
    /\ threshold = ThresholdDen
    /\ called = "none"
    /\ result = NotCalled
    /\ InitEPA
    /\ InitApp

\* Build has visited every event of plain_log.
BuildDone == Len(processed) = Len(Flatten(PlainLog(traces)))

\* One iteration of the inner loop of build on the log of the binary.
ProcessNextEvent ==
    /\ called = "none"
    /\ ~BuildDone
    /\ LET event == Flatten(PlainLog(traces))[Len(processed) + 1]
           next == BuildStep(Epa, last_at, event)
       IN  /\ states' = next.epa.states
           /\ transitions' = next.epa.transitions
           /\ activities' = next.epa.activities
           /\ last_at' = next.last_at
           /\ processed' = Append(processed, event)
    /\ UNCHANGED depVars
    /\ UNCHANGED appVars

\* The entropy calls on the automaton build returned.
EntropyOfBuild == BuildDone /\ ComputeEntropy

NextCases == ProcessNextEvent \/ EntropyOfBuild

SpecCases == InitCases /\ [][NextCases]_vars

---------------------------------------------------------------------------
(* src/bin/egypt.rs: App, the component behind the page *)

\* The texts the user types: lists of lines, a line being the list of its
\* comma-separated fields (" " is a field that trims to nothing).
TypedTexts ==
    { <<>>,
      << <<"a", "b">> >>,
      << <<"a", " ">>, <<" ">>, <<"b">> >> }

\* The traces an imported file parses to.
MaxFileSize == 2
FileTraces == UNION { CaseListsOfSize(c) : c \in 0..MaxFileSize }

\* What the FileReader hands to onload for a file: its text, which parses to
\* traces or not, or a result that is no string or no result.
ParseError == [tag |-> "XESParseError"]
FileContents == {Some(tl) : tl \in FileTraces} \cup {ParseError}
Ok(v) == [tag |-> "Ok", val |-> v]
Err(e) == [tag |-> "Err", val |-> e]
LoadResults ==
    {Ok(c) : c \in FileContents}
        \cup {Err("Failed to convert file content to string"),
              Err("Error reading file: ")}

\* line.split(',').filter(|activity| !activity.trim().is_empty())
RECURSIVE NonBlank(_)
NonBlank(line) ==
    IF line = <<>> THEN <<>>
    ELSE (IF Head(line) = " " THEN <<>> ELSE <<Head(line)>>) \o NonBlank(Tail(line))

\* text.lines().filter_map(..): the non-empty traces of the lines.
RECURSIVE TracesOfLines(_)
TracesOfLines(lines) ==
    IF lines = <<>> THEN <<>>
    ELSE (IF NonBlank(Head(lines)) = <<>> THEN <<>> ELSE <<NonBlank(Head(lines))>>)
         \o TracesOfLines(Tail(lines))

\* get_traces: of a typed text the traces of its lines; the lines of a
\* rendered text (a report, an error message, an XES document) are kept as
\* the text they are the lines of.
get_traces(text_) ==
    IF text_.kind = "typed" THEN TracesOfLines(text_.lines)
    ELSE [lines_of |-> text_]

\* generate_xes: the XES document of the traces of the text, one event per
\* activity, its timestamp fixed by its place in the trace.
generate_xes(text_) == [kind |-> "xes", traces |-> get_traces(text_)]

\* The messages written into the text area.
ErrorText(message) == [kind |-> "error", message |-> message]

\* variants.values().max().unwrap()
MaxCount(variants) ==
    CHOOSE m \in {variants[k] : k \in DOMAIN variants} :
        \A k \in DOMAIN variants : variants[k] <= m

\* The text XESLoaded formats from the matrix, the variants and the automaton
\* of num_traces traces.
FormatReport(adj, variants, epa, num_traces) ==
    [kind |-> "report",
     adj_matrix |-> adj.output,
     relations |-> adj.number_of_activities * adj.number_of_activities,
     independences_per_relations |->
         Divide(adj.full_independences,
                adj.number_of_activities * adj.number_of_activities),
     temporal_independences_per_relations |->
         Divide(adj.pure_existences,
                adj.number_of_activities * adj.number_of_activities),
     max_variant_frequency |-> Divide(MaxCount(variants), num_traces),
     variants_per_traces |-> Divide(Cardinality(DOMAIN variants), num_traces),
     eventual_equivalences |-> adj.eventual_equivalences,
     direct_equivalences |-> adj.direct_equivalences,
     variants |-> Cardinality(DOMAIN variants),
     freq_over_variants |->
         Divide(MaxCount(variants), num_traces * Cardinality(DOMAIN variants)),
     variant_entropy |-> variant_entropy(epa),
     normalized_variant_entropy |-> normalized_variant_entropy(epa)]

\* What the Ok(traces) arm of XESLoaded computes: Panic when the matrix
\* unwinds or max().unwrap() finds no variant, else the report.
ReportOrPanic(adj, traces_) ==
    IF adj = Panic \/ traces_ = <<>> THEN Panic
    ELSE FormatReport(adj, variants_of_traces(traces_),
                      Build(PlainLog(traces_)), Len(traces_))

Report(traces_) == ReportOrPanic(generate_adj_matrix_from_traces(traces_), traces_)

\* The component runs: no handler has unwound.
Running == in_flight # Panic

\* Msg::TextInput(text)
TextInput(typed) ==
    /\ Running
    /\ text' = Typed(typed)
    /\ app_processed' = FALSE
    /\ UNCHANGED <<in_flight, download>>
    /\ UNCHANGED <<depVars, epaVars>>

\* Msg::XESImport(None)
XESImportNone ==
    /\ Running
    /\ UNCHANGED vars

\* Msg::XESImport(Some(file)) when read_as_text fails: the new onload closure
\* has replaced the stored one, so a read still under way reports nothing.
XESImportUnreadable ==
    /\ Running
    /\ text' = ErrorText("Error reading file")
    /\ in_flight' = None
    /\ UNCHANGED <<app_processed, download>>
    /\ UNCHANGED <<depVars, epaVars>>

\* Msg::XESImport(Some(file)) when the read starts: onload will send
\* XESLoaded with the outcome.
XESImportFile(outcome) ==
    /\ Running
    /\ in_flight' = Some(outcome)
    /\ UNCHANGED <<text, app_processed, download>>
    /\ UNCHANGED <<depVars, epaVars>>

\* Msg::XESLoaded(result)
XESLoaded ==
    /\ IsSome(in_flight)
    /\ LET loaded == in_flight.val
       IN  IF loaded.tag = "Err"
           THEN /\ text' = ErrorText("Error loading file: " \o loaded.val)
                /\ in_flight' = None
           ELSE IF loaded.val = ParseError
           THEN /\ text' = ErrorText("Error parsing file: ")
                /\ in_flight' = None
           ELSE IF Report(loaded.val.val) = Panic
           THEN /\ in_flight' = Panic
                /\ UNCHANGED text
           ELSE /\ text' = Report(loaded.val.val)
                /\ in_flight' = None
    /\ UNCHANGED <<app_processed, download>>
    /\ UNCHANGED <<depVars, epaVars>>

\* Msg::ConvertToXES; the button is disabled while processed is set.
ConvertToXES ==
    /\ Running
    /\ ~app_processed
    /\ text' = generate_xes(text)
    /\ app_processed' = TRUE
    /\ UNCHANGED <<in_flight, download>>
    /\ UNCHANGED <<depVars, epaVars>>

\* Msg::DownloadXES; the button is disabled unless processed is set.
DownloadXES ==
    /\ Running
    /\ app_processed
    /\ download' = Some(text)
    /\ UNCHANGED <<text, app_processed, in_flight>>
    /\ UNCHANGED <<depVars, epaVars>>

InitAppSpec == InitApp /\ InitDep /\ InitEPA

NextApp ==
    \/ \E typed \in TypedTexts : TextInput(typed)
    \/ XESImportNone
    \/ XESImportUnreadable
    \/ \E outcome \in LoadResults : XESImportFile(outcome)
    \/ XESLoaded
    \/ ConvertToXES
    \/ DownloadXES

SpecApp == InitAppSpec /\ [][NextApp]_vars

---------------------------------------------------------------------------
(* Claims about the variant counter and the dependency matrix, under SpecLog. *)

CalledVariants == called = "variants"

DistinctTraces == {traces[i] : i \in 1..Len(traces)}

RECURSIVE SumCounts(_, _)
SumCounts(counts, keys) ==
    IF keys = {} THEN 0
    ELSE LET k == CHOOSE x \in keys : TRUE
         IN  counts[k] + SumCounts(counts, keys \ {k})

\* C16: variants_of_traces maps every distinct trace sequence to the number
\* of times that exact sequence occurs: its keys are exactly the distinct
\* sequences (order matters, so [A,B] and [B,A] are two keys) and its counts
\* sum to the number of traces.
C16_VariantsCount ==
    CalledVariants =>
        /\ DOMAIN result = DistinctTraces
        /\ \A k \in DistinctTraces :
              result[k] = Cardinality({i \in 1..Len(traces) : traces[i] = k})
        /\ SumCounts(result, DOMAIN result) = Len(traces)
        /\ (<< <<"A", "B">>, <<"B", "A">> >> = traces =>
                result = [k \in {<<"A", "B">>, <<"B", "A">>} |-> 1])

\* The variants of a log holding a sequence twice and its reversal once.
C16_Witness ==
    /\ CalledVariants
    /\ <<"A", "B">> \in DOMAIN result
    /\ <<"B", "A">> \in DOMAIN result
    /\ result[<<"B", "A">>] = 1
    /\ Len(traces) = 2

CalledAdjMatrix == called = "adj_matrix"

\* The ordered pairs of distinct activities of the log.
OrderedPairs ==
    {p \in ActivitiesOf(traces) \X ActivitiesOf(traces) : p[1] # p[2]}

TemporalAtOne(p) == check_temporal_dependency(p[1], p[2], traces, ThresholdDen)
ExistentialAtOne(p) == check_existential_dependency(p[1], p[2], traces, ThresholdDen)

EquivalenceWith(p, kind) ==
    /\ IsSome(ExistentialAtOne(p))
    /\ ExistentialAtOne(p).val.dependency_type = "Equivalence"
    /\ IsSome(TemporalAtOne(p))
    /\ TemporalAtOne(p).val.dependency_type = kind

\* C17: the matrix evaluates both analysers at threshold 1.0 for exactly the
\* n(n-1) ordered pairs of distinct activities; pure_existences counts the
\* pairs without a temporal dependency, full_independences those with neither
\* dependency, eventual_ and direct_equivalences the pairs with an existential
\* Equivalence and a temporal Eventual resp. Direct dependency; so
\* full <= pure <= n(n-1) and eventual + direct + pure <= n(n-1).
C17_MatrixCounters ==
    CalledAdjMatrix =>
        LET n == Cardinality(ActivitiesOf(traces))
        IN  /\ result # Panic
            /\ result.number_of_activities = n
            /\ {p \in DOMAIN result.output : result.output[p] # Todo}
                  = OrderedPairs
            /\ Cardinality(OrderedPairs) = n * (n - 1)
            /\ \A p \in OrderedPairs :
                  result.output[p] = [temporal |-> TemporalAtOne(p),
                                      existential |-> ExistentialAtOne(p)]
            /\ result.pure_existences
                  = Cardinality({p \in OrderedPairs : TemporalAtOne(p) = None})
            /\ result.full_independences
                  = Cardinality({p \in OrderedPairs :
                        TemporalAtOne(p) = None /\ ExistentialAtOne(p) = None})
            /\ result.eventual_equivalences
                  = Cardinality({p \in OrderedPairs : EquivalenceWith(p, "Eventual")})
            /\ result.direct_equivalences
                  = Cardinality({p \in OrderedPairs : EquivalenceWith(p, "Direct")})
            /\ result.full_independences <= result.pure_existences
            /\ result.pure_existences <= n * (n - 1)
            /\ result.eventual_equivalences + result.direct_equivalences
                  + result.pure_existences <= n * (n - 1)

\* A matrix with fully independent pairs: each of two activities occurs
\* without the other and both occur together.
C17_Witness ==
    /\ CalledAdjMatrix
    /\ result # Panic
    /\ result.full_independences >= 1
    /\ result.pure_existences >= result.full_independences

---------------------------------------------------------------------------
(* Claims about the per-trace classifications, under Spec. *)

\* The 0-based positions of activity a in trace, and the k-th of them.
PositionsOf(a, trace) == {i \in 0..(Len(trace) - 1) : trace[i + 1] = a}
Kth(S, k) == CHOOSE x \in S : Cardinality({y \in S : y < x}) = k - 1

Min(a, b) == IF a <= b THEN a ELSE b

\* The classification of a from at position i and a to at position j.
Classification(i, j) ==
    << IF i - j = 1 \/ j - i = 1 THEN "Direct" ELSE "Eventual",
       IF i < j THEN "Forward" ELSE "Backward" >>

Classifications ==
    {"Direct", "Eventual"} \X {"Forward", "Backward"}

TraceDeps(i) == check_trace_dependency(from, to, traces[i])

CalledTemporalAny == called = "temporal"

\* C18 as stated: for distinct from and to the list of a trace holds one
\* entry for every combination of a from position i and a to position j,
\* classified (Direct if |i-j| = 1 else Eventual, Forward if i < j else
\* Backward), so its length is #from * #to.
C18_AsStated ==
    (CalledTemporalAny /\ from # to) =>
        \A t \in 1..Len(traces) :
            LET F == PositionsOf(from, traces[t])
                T == PositionsOf(to, traces[t])
            IN  /\ IsSome(TraceDeps(t))
                /\ Len(TraceDeps(t).val) = Cardinality(F) * Cardinality(T)
                /\ \A e \in Classifications :
                      Cardinality({k \in 1..Len(TraceDeps(t).val) :
                                      TraceDeps(t).val[k] = e})
                        = Cardinality({p \in F \X T : Classification(p[1], p[2]) = e})

\* C18 (amended): for distinct from and to the list of a trace holds one entry
\* for every occurrence of to and at most one more for every occurrence of
\* from, so its length lies between #to and #from + #to; when from and to
\* occur once each, at i and j, it is the one entry (Direct if |i-j| = 1 else
\* Eventual, Forward if i < j else Backward).
C18_PairedNotCombined ==
    (CalledTemporalAny /\ from # to) =>
        \A t \in 1..Len(traces) :
            LET F == PositionsOf(from, traces[t])
                T == PositionsOf(to, traces[t])
            IN  /\ IsSome(TraceDeps(t))
                /\ Cardinality(T) <= Len(TraceDeps(t).val)
                /\ Len(TraceDeps(t).val) <= Cardinality(F) + Cardinality(T)
                /\ (Cardinality(F) = 1 /\ Cardinality(T) = 1) =>
                      TraceDeps(t).val = << Classification(Kth(F, 1), Kth(T, 1)) >>

\* A trace with two occurrences of from whose list is shorter than the
\* number of combinations, next to a trace with one occurrence of each.
C18_Witness ==
    /\ CalledTemporalAny
    /\ from # to
    /\ \E t \in 1..Len(traces) :
          /\ Cardinality(PositionsOf(from, traces[t])) >= 2
          /\ Cardinality(PositionsOf(to, traces[t])) >= 1
          /\ Len(TraceDeps(t).val) < Cardinality(PositionsOf(from, traces[t]))
                                      * Cardinality(PositionsOf(to, traces[t]))

\* The trace holds both activities and its k-th from precedes its k-th to for
\* every k up to min(#from, #to).
InOrderShape(trace) ==
    LET F == PositionsOf(from, trace)
        T == PositionsOf(to, trace)
    IN  /\ F # {}
        /\ T # {}
        /\ \A k \in 1..Min(Cardinality(F), Cardinality(T)) : Kth(F, k) < Kth(T, k)

\* C19: occurrences are paired in order: for a trace of the in-order shape no
\* Backward entry is recorded and the k-th entry is (Direct, Forward) when the
\* k-th to directly follows the k-th from and (Eventual, Forward) otherwise;
\* over a non-empty list of traces all of this shape check_temporal_dependency
\* at threshold 1.0 returns Forward.
C19_PairedInOrder ==
    CalledTemporalAny =>
        /\ \A t \in 1..Len(traces) :
              InOrderShape(traces[t]) =>
                LET F == PositionsOf(from, traces[t])
                    T == PositionsOf(to, traces[t])
                    deps == TraceDeps(t)
                IN  /\ IsSome(deps)
                    /\ \A k \in 1..Len(deps.val) : deps.val[k][2] # "Backward"
                    /\ Len(deps.val) >= Min(Cardinality(F), Cardinality(T))
                    /\ \A k \in 1..Min(Cardinality(F), Cardinality(T)) :
                          deps.val[k] =
                            << IF Kth(T, k) = Kth(F, k) + 1
                               THEN "Direct" ELSE "Eventual", "Forward" >>
        /\ (/\ threshold = ThresholdDen
            /\ traces # <<>>
            /\ \A t \in 1..Len(traces) : InOrderShape(traces[t]))
              => /\ IsSome(result)
                 /\ result.val.direction = "Forward"

\* The log of test_with_loop_1: a to precedes the second from, the result is
\* Eventual/Forward.
C19_Witness ==
    /\ CalledTemporalAny
    /\ traces = << <<"A", "B", "C", "A", "C">> >>
    /\ from = "A"
    /\ to = "C"
    /\ InOrderShape(traces[1])
    /\ result = Some(TemporalDependency("A", "C", "Eventual", "Forward"))

---------------------------------------------------------------------------
(* Claims about the partitions of the automaton, under SpecEPA. *)

\* The source of the transition that leads to the non-root state id.
ParentIn(trans, id) ==
    trans[CHOOSE i \in 1..Len(trans) : trans[i][3] = id][1]

\* The partition numbers carried by the states sts.
PartitionsOf(sts) ==
    {sts[id].partition.val : id \in {i \in DOMAIN sts : IsSome(sts[i].partition)}}

HasOutgoing(trans, id) == \E i \in 1..Len(trans) : trans[i][1] = id

\* A step of build follows the rule for the partition of a created state and
\* leaves the partitions of the states it found unchanged.
PartitionRule ==
    /\ \A id \in DOMAIN states :
          /\ id \in DOMAIN states'
          /\ states'[id].partition = states[id].partition
    /\ \A id \in DOMAIN states' \ DOMAIN states :
          LET pred == ParentIn(transitions', id)
              c == states'[id].partition
          IN  /\ IsSome(c)
              /\ pred = root => c.val = 1
              /\ (pred # root /\ HasOutgoing(transitions, pred)) =>
                    /\ \A q \in PartitionsOf(states) : q < c.val
                    /\ c.val - 1 \in PartitionsOf(states)
              /\ (pred # root /\ ~HasOutgoing(transitions, pred)) =>
                    c = states[pred].partition

\* C21: whenever build creates a state its partition is 1 below the root, the
\* current maximum partition + 1 (held by no existing state) below a non-root
\* state that already has an outgoing transition, and the predecessor's
\* partition below a non-root state without one; the partitions of existing
\* states never change.
C21_PartitionAssignment == [][PartitionRule]_vars

\* An automaton in which the three cases of the rule have happened: a state
\* below the root, a state that inherited and a state that opened partition 2
\* at a branch.
C21_Witness ==
    /\ \E id \in NonRoot :
          /\ ParentIn(transitions, id) # root
          /\ states[id].partition = states[ParentIn(transitions, id)].partition
    /\ \E id \in NonRoot :
          /\ states[id].partition = Some(2)
          /\ ParentIn(transitions, id) # root
          /\ states[ParentIn(transitions, id)].partition = Some(1)

\* The proper descendants of state id.
Descendants(id) == Within(Targets({id}), Len(transitions))

\* C22 as stated: the states that share a partition number form one unbroken
\* chain: of two states with the same partition one is an ancestor of the
\* other and every state on the path between them has that partition.
C22_AsStated ==
    \A a, b \in NonRoot :
        (a # b /\ states[a].partition = states[b].partition) =>
            \/ /\ b \in Descendants(a)
               /\ \A x \in Descendants(a) :
                     b \in Descendants(x) => states[x].partition = states[a].partition
            \/ /\ a \in Descendants(b)
               /\ \A x \in Descendants(b) :
                     a \in Descendants(x) => states[x].partition = states[b].partition

---------------------------------------------------------------------------
(* Claims about the automaton of the binary's log, under SpecCases. *)

\* The symbol sequence of a trace.
SymbolsOf(trace) == [e \in 1..Len(trace) |-> FirstChar(trace[e])]

\* The state a path from state id labelled by seq ends in ("" when the
\* automaton has no such path).
RECURSIVE Walk(_, _)
Walk(id, seq) ==
    IF seq = <<>> THEN id
    ELSE LET hits == {i \in 1..Len(transitions) :
                        transitions[i][1] = id /\ transitions[i][2] = Head(seq)}
         IN  IF Cardinality(hits) # 1 THEN ""
             ELSE Walk(transitions[CHOOSE i \in hits : TRUE][3], Tail(seq))

\* The distinct non-empty prefixes of the symbol sequences of the cases.
Prefixes ==
    UNION { {SubSeq(SymbolsOf(traces[c]), 1, n) : n \in 1..Len(traces[c])} :
            c \in 1..Len(traces) }

\* C23: for a log of the shape the binary constructs the automaton build
\* returns is the prefix tree of the cases' symbol sequences: the sequence of
\* every case labels a path from the root to the case's last state, and the
\* non-root states are as many as the distinct non-empty prefixes.
C23_PrefixTree ==
    BuildDone =>
        /\ \A c \in 1..Len(traces) :
              traces[c] # <<>> =>
                /\ CaseId(c - 1) \in DOMAIN last_at
                /\ Walk(root, SymbolsOf(traces[c])) = last_at[CaseId(c - 1)]
        /\ Cardinality(NonRoot) = Cardinality(Prefixes)

\* The finished automaton of two cases that share a first symbol under
\* different activity names and then part.
C23_Witness ==
    /\ BuildDone
    /\ Len(traces) = 2
    /\ Len(traces[1]) >= 2
    /\ Len(traces[2]) >= 2
    /\ traces[1][1] = "ab"
    /\ traces[2][1] = "a"
    /\ last_at[CaseId(0)] # last_at[CaseId(1)]
    /\ Cardinality(NonRoot) = 3

\* The list of traces with the cases at i and j exchanged.
SwapCases(traces_, i, j) ==
    [c \in 1..Len(traces_) |->
        IF c = i THEN traces_[j] ELSE IF c = j THEN traces_[i] ELSE traces_[c]]

\* The multiset of the partition sizes of sts: how many partitions have each
\* size.
SizeBag(sts) ==
    LET sizes == PartitionSizes(sts)
    IN  [n \in {sizes[q] : q \in DOMAIN sizes} |->
            Cardinality({q \in DOMAIN sizes : sizes[q] = n})]

\* C24 as stated: reordering the cases of a log of the binary's shape changes
\* only the numbers of the partitions: the built automata have the same
\* multiset of partition sizes and the same variant_entropy and
\* normalized_variant_entropy (here: for every exchange of two cases).
C24_AsStated ==
    (BuildDone /\ CalledEntropy) =>
        \A i, j \in 1..Len(traces) :
            LET other == Build(PlainLog(SwapCases(traces, i, j)))
            IN  /\ SizeBag(other.states) = SizeBag(states)
                /\ variant_entropy(other) = result.variant_entropy
                /\ normalized_variant_entropy(other)
                      = result.normalized_variant_entropy

---------------------------------------------------------------------------
(* Claims about the self-pair, under Spec. *)

---------------------------------------------------------------------------
(* Claims about the entropy of a non-empty log, under SpecEPA. *)

\* C26 as stated: for the automaton of a log with at least one event the
\* state count S of the entropy functions is at least 2, so the denominator
\* S*log10(S) of normalized_variant_entropy is not zero and the score is a
\* number.
C26_AsStated ==
    (CalledEntropy /\ Len(processed) >= 1) =>
        /\ EntropyS(states) >= 2
        /\ XLogX(EntropyS(states)) # 0
        /\ result.normalized_variant_entropy.tag = "Ratio"

---------------------------------------------------------------------------
(* Claims about the component, under SpecApp. *)

\* A message that replaces the text by something that is not the XES document
\* of the text it found clears processed.
ReplacingClearsProcessed ==
    (text' # text /\ text' # generate_xes(text)) => ~app_processed'

\* C27 as stated: after any sequence of messages, whenever processed is set
\* (Download XES is enabled) the text is the output of generate_xes of the
\* last ConvertToXES, and every message that replaces the text by something
\* else clears processed.
C27_AsStated ==
    /\ [](app_processed => text.kind = "xes")
    /\ [][ReplacingClearsProcessed]_vars

====
